---- MODULE Spec2Model ----
(***************************************************************************)
(* Binary Byzantine agreement (src/agreement/mod.rs): the Agreement       *)
(* instance as a state machine, a single instance driven by an arbitrary   *)
(* caller, and a network of instances with one Byzantine node.             *)
(***************************************************************************)
EXTENDS Integers, Sequences, FiniteSets, TLC

(***************************************************************************)
(* Bounds of the model.                                                    *)
(***************************************************************************)
\* Highest epoch a message may carry and an instance may enter.
MaxEpoch == 2
\* Longest future-epoch buffer (incoming_queue) the caller may build up.
MaxQueue == 1
\* Outbound messages the caller may leave in the queue when it makes a call.
MaxPending == 0
\* handle_message calls the caller of a single instance with f >= 1 may make.
MaxCalls == 3
\* Messages the Byzantine node may send in the network of instances.
MaxByz == 1
MaxBuffer == 3
MaxSplit == 2
MaxRunEpoch == 3

(***************************************************************************)
(* Option<T>: the empty set is None, {x} is Some(x).                       *)
(***************************************************************************)
None == {}
Some(x) == {x}
unwrap(o) == CHOOSE x \in o : TRUE

(***************************************************************************)
(* BinValues: a subset of {FALSE, TRUE}.                                   *)
(***************************************************************************)
BinValuesNone == {}
BinValuesBoth == {FALSE, TRUE}
BinValuesAll == SUBSET BOOLEAN
bv_insert(bv, b) == bv \cup {b}
bv_insert_changed(bv, b) == b \notin bv
bv_contains(bv, b) == b \in bv
bv_is_subset(bv, other) == bv \subseteq other
bv_definite(bv) == IF Cardinality(bv) = 1 THEN bv ELSE None
bv_collect(S) == UNION S

(***************************************************************************)
(* AgreementMessage.  b is the bit of BVal/Aux, v the BinValues of Conf;   *)
(* the field a content does not carry holds a fixed filler.                *)
(***************************************************************************)
bval(epoch, b) == [epoch |-> epoch, tag |-> "BVal", b |-> b, v |-> BinValuesNone]
aux(epoch, b) == [epoch |-> epoch, tag |-> "Aux", b |-> b, v |-> BinValuesNone]
conf(epoch, v) == [epoch |-> epoch, tag |-> "Conf", b |-> FALSE, v |-> v]

AgreementContent(e) ==
    {bval(e, b) : b \in BOOLEAN} \cup {aux(e, b) : b \in BOOLEAN}
        \cup {conf(e, v) : v \in BinValuesAll}
AgreementMessage == UNION {AgreementContent(e) : e \in 0..MaxEpoch}

(***************************************************************************)
(* NetworkInfo: N nodes 0..N-1, f = (N-1) div 3 of them faulty.             *)
(***************************************************************************)
NetworkInfo(n, uid) ==
    [num_nodes |-> n, num_faulty |-> (n - 1) \div 3, our_uid |-> uid]
all_uids(netinfo) == 0..(netinfo.num_nodes - 1)

(***************************************************************************)
(* Agreement::new.  ret is the AgreementResult of the call in progress.    *)
(***************************************************************************)
new(netinfo) ==
    [netinfo |-> netinfo,
     epoch |-> 0,
     bin_values |-> BinValuesNone,
     received_bval |-> [n \in all_uids(netinfo) |-> {}],
     sent_bval |-> {},
     received_aux |-> [n \in all_uids(netinfo) |-> None],
     received_conf |-> [n \in all_uids(netinfo) |-> None],
     estimated |-> None,
     output |-> None,
     decision |-> None,
     incoming_queue |-> <<>>,
     terminated |-> FALSE,
     messages |-> <<>>,
     conf_round |-> FALSE,
     ret |-> "Ok"]

Ok(s) == [s EXCEPT !.ret = "Ok"]
Err(s, kind) == [s EXCEPT !.ret = kind]

count_aux(s) ==
    Cardinality({n \in DOMAIN s.received_aux :
        /\ s.received_aux[n] # None
        /\ bv_contains(s.bin_values, unwrap(s.received_aux[n]))})

conf_vals(s) ==
    {n \in DOMAIN s.received_conf :
        /\ s.received_conf[n] # None
        /\ bv_is_subset(unwrap(s.received_conf[n]), s.bin_values)}

count_conf(s) ==
    <<Cardinality(conf_vals(s)),
      bv_collect({unwrap(s.received_conf[n]) : n \in conf_vals(s)})>>

\* start_next_epoch that also clears the decision with the per-epoch state.
start_next_epoch_forgets(s) ==
    [s EXCEPT !.bin_values = BinValuesNone,
              !.received_bval = [n \in DOMAIN @ |-> {}],
              !.sent_bval = {},
              !.received_aux = [n \in DOMAIN @ |-> None],
              !.received_conf = [n \in DOMAIN @ |-> None],
              !.conf_round = FALSE,
              !.decision = None,
              !.epoch = @ + 1]

start_next_epoch(s) ==
    [s EXCEPT !.bin_values = BinValuesNone,
              !.received_bval = [n \in DOMAIN @ |-> {}],
              !.sent_bval = {},
              !.received_aux = [n \in DOMAIN @ |-> None],
              !.received_conf = [n \in DOMAIN @ |-> None],
              !.conf_round = FALSE,
              !.epoch = @ + 1]

\* A coin that is true in the odd epochs.
coin_of_odd(epoch) == epoch % 2 = 1

coin_of(epoch) == (epoch % 2) = 0

RECURSIVE handle_message(_, _, _)
RECURSIVE handle_bval(_, _, _)
RECURSIVE send_bval(_, _)
RECURSIVE send_conf(_)
RECURSIVE handle_aux(_, _, _)
RECURSIVE handle_conf(_, _, _)
RECURSIVE try_finish_conf_round(_)
RECURSIVE send_aux(_, _)
RECURSIVE invoke_coin(_, _)
RECURSIVE replay_queue(_, _)

\* handle_message without the check of the terminated flag.
handle_message_unlatched(s, sender_id, message) ==
    IF message.epoch < s.epoch THEN Ok(s)
    ELSE IF message.epoch > s.epoch
        THEN Ok([s EXCEPT !.incoming_queue = Append(@, <<sender_id, message>>)])
    ELSE IF message.tag = "BVal" THEN handle_bval(s, sender_id, message.b)
    ELSE IF message.tag = "Aux" THEN handle_aux(s, sender_id, message.b)
    ELSE handle_conf(s, sender_id, message.v)

\* handle_message that puts a message of a future epoch at the front of the
\* buffer.
handle_message_prepends(s, sender_id, message) ==
    IF s.terminated THEN Err(s, "Terminated")
    ELSE IF message.epoch < s.epoch THEN Ok(s)
    ELSE IF message.epoch > s.epoch
        THEN Ok([s EXCEPT !.incoming_queue = <<<<sender_id, message>>>> \o @])
    ELSE IF message.tag = "BVal" THEN handle_bval(s, sender_id, message.b)
    ELSE IF message.tag = "Aux" THEN handle_aux(s, sender_id, message.b)
    ELSE handle_conf(s, sender_id, message.v)

handle_message(s, sender_id, message) ==
    IF s.terminated THEN Err(s, "Terminated")
    ELSE IF message.epoch < s.epoch THEN Ok(s)
    ELSE IF message.epoch > s.epoch
        THEN Ok([s EXCEPT !.incoming_queue = Append(@, <<sender_id, message>>)])
    ELSE IF message.tag = "BVal" THEN handle_bval(s, sender_id, message.b)
    ELSE IF message.tag = "Aux" THEN handle_aux(s, sender_id, message.b)
    ELSE handle_conf(s, sender_id, message.v)

\* handle_bval that sends Aux on every insertion into bin_values.
handle_bval_aux_again(s, sender_id, b) ==
    LET s1 == [s EXCEPT !.received_bval[sender_id] = @ \cup {b}]
        count_bval == Cardinality({n \in DOMAIN s1.received_bval :
                                      b \in s1.received_bval[n]})
    IN  IF count_bval = 2 * s.netinfo.num_faulty + 1
        THEN LET bin_values_changed == bv_insert_changed(s1.bin_values, b)
                 s2 == [s1 EXCEPT !.bin_values = bv_insert(@, b)]
             IN  IF bin_values_changed THEN send_aux(s2, b)
                 ELSE Ok(s2)
        ELSE IF count_bval = s.netinfo.num_faulty + 1 /\ b \notin s1.sent_bval
        THEN send_bval(s1, b)
        ELSE Ok(s1)

\* handle_bval that does not look at the Conf round when bin_values grows.
handle_bval_no_recheck(s, sender_id, b) ==
    LET s1 == [s EXCEPT !.received_bval[sender_id] = @ \cup {b}]
        count_bval == Cardinality({n \in DOMAIN s1.received_bval :
                                      b \in s1.received_bval[n]})
    IN  IF count_bval = 2 * s.netinfo.num_faulty + 1
        THEN LET previous_bin_values == s1.bin_values
                 s2 == [s1 EXCEPT !.bin_values = bv_insert(@, b)]
             IN  IF previous_bin_values = BinValuesNone THEN send_aux(s2, b)
                 ELSE Ok(s2)
        ELSE IF count_bval = s.netinfo.num_faulty + 1 /\ b \notin s1.sent_bval
        THEN send_bval(s1, b)
        ELSE Ok(s1)

handle_bval(s, sender_id, b) ==
    LET s1 == [s EXCEPT !.received_bval[sender_id] = @ \cup {b}]
        count_bval == Cardinality({n \in DOMAIN s1.received_bval :
                                      b \in s1.received_bval[n]})
    IN  IF count_bval = 2 * s.netinfo.num_faulty + 1
        THEN LET previous_bin_values == s1.bin_values
                 bin_values_changed == bv_insert_changed(s1.bin_values, b)
                 s2 == [s1 EXCEPT !.bin_values = bv_insert(@, b)]
             IN  IF previous_bin_values = BinValuesNone THEN send_aux(s2, b)
                 ELSE IF bin_values_changed THEN try_finish_conf_round(s2)
                 ELSE Ok(s2)
        ELSE IF count_bval = s.netinfo.num_faulty + 1 /\ b \notin s1.sent_bval
        THEN send_bval(s1, b)
        ELSE Ok(s1)

send_bval(s, b) ==
    handle_bval([s EXCEPT !.sent_bval = @ \cup {b},
                          !.messages = Append(@, bval(s.epoch, b))],
                s.netinfo.our_uid, b)

send_conf(s) ==
    IF s.conf_round THEN Ok(s)
    ELSE LET v == s.bin_values
         IN  handle_conf([s EXCEPT !.messages = Append(@, conf(s.epoch, v)),
                                   !.conf_round = TRUE],
                         s.netinfo.our_uid, v)

handle_aux(s, sender_id, b) ==
    IF s.conf_round THEN Ok(s)
    ELSE LET s1 == [s EXCEPT !.received_aux[sender_id] = Some(b)]
         IN  IF s1.bin_values = BinValuesNone THEN Ok(s1)
             ELSE IF count_aux(s1) < s.netinfo.num_nodes - s.netinfo.num_faulty
             THEN Ok(s1)
             ELSE send_conf(s1)

handle_conf(s, sender_id, v) ==
    try_finish_conf_round([s EXCEPT !.received_conf[sender_id] = Some(v)])

try_finish_conf_round(s) ==
    IF s.conf_round
    THEN LET cc == count_conf(s)
         IN  IF cc[1] < s.netinfo.num_nodes - s.netinfo.num_faulty
             THEN Ok(s)
             ELSE invoke_coin(s, cc[2])
    ELSE Ok(s)

send_aux(s, b) ==
    handle_aux([s EXCEPT !.messages = Append(@, aux(s.epoch, b))],
               s.netinfo.our_uid, b)

\* next_estimate that latches the node's previous estimate, not the value
\* the Conf round produced.
next_estimate_own(s, vals, coin) ==
    IF bv_definite(vals) # None
    THEN LET b == unwrap(bv_definite(vals))
         IN  IF s.decision = None /\ b = coin
             THEN [s EXCEPT !.estimated = Some(b),
                            !.output = s.estimated,
                            !.decision = s.estimated]
             ELSE [s EXCEPT !.estimated = Some(b)]
    ELSE [s EXCEPT !.estimated = Some(coin)]

\* next_estimate that latches the coin on any definite value.
next_estimate_coin(s, vals, coin) ==
    IF bv_definite(vals) # None
    THEN LET b == unwrap(bv_definite(vals))
         IN  IF s.decision = None
             THEN [s EXCEPT !.estimated = Some(b),
                            !.output = Some(coin),
                            !.decision = Some(coin)]
             ELSE [s EXCEPT !.estimated = Some(b)]
    ELSE [s EXCEPT !.estimated = Some(coin)]

\* The decision block of invoke_coin (lines 389-405): the next estimate and,
\* at most once, the output and the latched decision.
next_estimate(s, vals, coin) ==
    IF bv_definite(vals) # None
    THEN LET b == unwrap(bv_definite(vals))
         IN  IF s.decision = None /\ b = coin
             THEN [s EXCEPT !.estimated = Some(b),
                            !.output = Some(b),
                            !.decision = Some(b)]
             ELSE [s EXCEPT !.estimated = Some(b)]
    ELSE [s EXCEPT !.estimated = Some(coin)]

\* invoke_coin that tests the termination condition after the decision block.
invoke_coin_late_check(s, vals) ==
    LET coin == coin_of(s.epoch)
        s3 == next_estimate(start_next_epoch(s), vals, coin)
        s4 == [s3 EXCEPT !.terminated = @ \/ (s3.decision = Some(coin))]
    IN  IF s4.terminated THEN Ok(s4)
        ELSE LET r == send_bval(s4, unwrap(s4.estimated))
             IN  IF r.ret # "Ok" THEN r
                 ELSE replay_queue([r EXCEPT !.incoming_queue = <<>>],
                                   r.incoming_queue)

\* invoke_coin that replays the buffer before it sends the BVal of the new
\* epoch.
invoke_coin_replays_first(s, vals) ==
    LET coin == coin_of(s.epoch)
        s1 == [s EXCEPT !.terminated = @ \/ (s.decision = Some(coin))]
    IN  IF s1.terminated THEN Ok(s1)
        ELSE LET s3 == next_estimate(start_next_epoch(s1), vals, coin)
                 r == replay_queue([s3 EXCEPT !.incoming_queue = <<>>],
                                   s3.incoming_queue)
             IN  IF r.ret # "Ok" THEN r
                 ELSE send_bval(r, unwrap(s3.estimated))

invoke_coin(s, vals) ==
    LET coin == coin_of(s.epoch)
        s1 == [s EXCEPT !.terminated = @ \/ (s.decision = Some(coin))]
    IN  IF s1.terminated THEN Ok(s1)
        ELSE LET s3 == next_estimate(start_next_epoch(s1), vals, coin)
                 r == send_bval(s3, unwrap(s3.estimated))
             IN  IF r.ret # "Ok" THEN r
                 ELSE replay_queue([r EXCEPT !.incoming_queue = <<>>],
                                   r.incoming_queue)

\* The loop of invoke_coin over the drained buffer (lines 409-413).
replay_queue(s, queued_msgs) ==
    IF queued_msgs = <<>> THEN Ok(s)
    ELSE LET r == handle_message(s, Head(queued_msgs)[1], Head(queued_msgs)[2])
         IN  IF r.ret # "Ok" THEN r
             ELSE replay_queue(r, Tail(queued_msgs))

accepts_input(s) == s.epoch = 0 /\ s.estimated = None

\* set_input that checks the epoch only.
set_input_reaccepts(s, input) ==
    IF s.epoch # 0 THEN Err(s, "InputNotAccepted")
    ELSE LET s1 == IF s.netinfo.num_nodes = 1
                   THEN [s EXCEPT !.decision = Some(input),
                                  !.output = Some(input),
                                  !.terminated = TRUE]
                   ELSE s
         IN  send_bval([s1 EXCEPT !.estimated = Some(input)], input)

set_input(s, input) ==
    IF s.epoch # 0 \/ s.estimated # None THEN Err(s, "InputNotAccepted")
    ELSE LET s1 == IF s.netinfo.num_nodes = 1
                   THEN [s EXCEPT !.decision = Some(input),
                                  !.output = Some(input),
                                  !.terminated = TRUE]
                   ELSE s
         IN  send_bval([s1 EXCEPT !.estimated = Some(input)], input)

\* next_message: the state after the pop; the message returned is the head.
next_message(s) == [s EXCEPT !.messages = Tail(@)]

\* next_output that leaves the value in place.
next_output_peek(s) == s

\* next_output: Option::take.
next_output(s) == [s EXCEPT !.output = None]

(***************************************************************************)
(* State of the model.                                                     *)
(*   st    the Agreement instances, by node id                             *)
(*   chan  messages multicast and not yet handled, per <<sender, receiver>>*)
(*   log   the messages each instance enqueued in its current epoch        *)
(*   outs  every value next_output returned, per instance, in order        *)
(*   inp   the input each instance accepted                                *)
(*   used  handle_message calls counted against MaxCalls, or messages the  *)
(*         Byzantine node has sent                                         *)
(***************************************************************************)
VARIABLES st, chan, log, outs, inp, used

vars == <<st, chan, log, outs, inp, used>>

\* The fields of an instance, without the result of the last call.
State(s) == [f \in (DOMAIN s) \ {"ret"} |-> s[f]]

\* The messages a call appended to the outbound queue.
enqueued(before, after) ==
    SubSeq(after.messages, Len(before.messages) + 1, Len(after.messages))

\* The log after a call: what the instance enqueued in the epoch it is in now.
RECURSIVE of_epoch(_, _)
of_epoch(q, e) ==
    IF q = <<>> THEN <<>>
    ELSE IF Head(q).epoch = e THEN <<Head(q)>> \o of_epoch(Tail(q), e)
    ELSE of_epoch(Tail(q), e)

logged(old, before, after) == of_epoch(old \o enqueued(before, after), after.epoch)

(***************************************************************************)
(* A single instance (node 0 of N) and a caller that may pass any message  *)
(* of any other node.                                                      *)
(***************************************************************************)
NodeCounts == {1, 2, 4}

InitNode ==
    /\ \E n \in NodeCounts : st = [i \in {0} |-> new(NetworkInfo(n, 0))]
    /\ chan = <<>>
    /\ log = [i \in {0} |-> <<>>]
    /\ outs = [i \in {0} |-> <<>>]
    /\ inp = [i \in {0} |-> None]
    /\ used = 0

SetInput(i, input) ==
    LET r == set_input(st[i], input)
    IN  /\ Len(st[i].messages) <= MaxPending
        /\ r.epoch <= MaxEpoch
        /\ st' = [st EXCEPT ![i] = r]
        /\ log' = [log EXCEPT ![i] = logged(@, st[i], r)]
        /\ inp' = [inp EXCEPT ![i] = IF r.ret = "InputNotAccepted" THEN @
                                     ELSE Some(input)]
        /\ UNCHANGED <<chan, outs, used>>

HandleMessage(i, sender_id, message) ==
    LET r == handle_message(st[i], sender_id, message)
    IN  /\ Len(st[i].messages) <= MaxPending
        /\ st[i].netinfo.num_faulty = 0 \/ used < MaxCalls
        /\ r.epoch <= MaxEpoch
        /\ Len(r.incoming_queue) <= MaxQueue
        /\ st' = [st EXCEPT ![i] = r]
        /\ log' = [log EXCEPT ![i] = logged(@, st[i], r)]
        /\ used' = IF st[i].netinfo.num_faulty = 0 THEN used ELSE used + 1
        /\ UNCHANGED <<chan, outs, inp>>

NextMessage(i) ==
    /\ st[i].messages # <<>>
    /\ st' = [st EXCEPT ![i] = next_message(@)]
    /\ UNCHANGED <<chan, log, outs, inp, used>>

NextOutput(i) ==
    /\ st' = [st EXCEPT ![i] = next_output(@)]
    /\ outs' = [outs EXCEPT ![i] = IF st[i].output = None THEN @
                                   ELSE Append(@, unwrap(st[i].output))]
    /\ UNCHANGED <<chan, log, inp, used>>

NextNode ==
    \/ \E input \in BOOLEAN : SetInput(0, input)
    \/ \E sender_id \in all_uids(st[0].netinfo) \ {0}, message \in AgreementMessage :
           HandleMessage(0, sender_id, message)
    \/ NextMessage(0)
    \/ NextOutput(0)

SpecNode == InitNode /\ [][NextNode]_vars

(***************************************************************************)
(* A network of N = 4 nodes, f = 1: nodes 0, 1, 2 run Agreement, node 3 is *)
(* Byzantine.  A node's outbound queue is drained after every call and     *)
(* each message multicast to the other nodes; the messages of one sender   *)
(* reach a receiver in the order they were sent.                           *)
(***************************************************************************)
NumNodes == 4
Byzantine == NumNodes - 1
Correct == (0..(NumNodes - 1)) \ {Byzantine}
Links == {l \in Correct \X Correct : l[1] # l[2]}

InitSys ==
    /\ st = [i \in Correct |-> new(NetworkInfo(NumNodes, i))]
    /\ chan = [l \in Links |-> <<>>]
    /\ log = [i \in Correct |-> <<>>]
    /\ outs = [i \in Correct |-> <<>>]
    /\ inp = [i \in Correct |-> None]
    /\ used = 0

\* Node i has run a call to r: take every outbound message with next_message
\* and multicast it.
Multicast(i, r) ==
    /\ st' = [st EXCEPT ![i] = [r EXCEPT !.messages = <<>>]]
    /\ chan' = [l \in Links |-> IF l[1] = i THEN chan[l] \o r.messages ELSE chan[l]]
    /\ log' = [log EXCEPT ![i] = logged(@, st[i], r)]

Input(i, input) ==
    /\ accepts_input(st[i])
    /\ Multicast(i, set_input(st[i], input))
    /\ inp' = [inp EXCEPT ![i] = Some(input)]
    /\ UNCHANGED <<outs, used>>

Deliver(src, dst) ==
    LET r == handle_message(st[dst], src, Head(chan[<<src, dst>>]))
    IN  /\ chan[<<src, dst>>] # <<>>
        /\ r.epoch <= MaxEpoch
        /\ Len(r.incoming_queue) <= MaxQueue
        /\ st' = [st EXCEPT ![dst] = [r EXCEPT !.messages = <<>>]]
        /\ chan' = [l \in Links |->
                      IF l = <<src, dst>> THEN Tail(chan[l])
                      ELSE IF l[1] = dst THEN chan[l] \o r.messages
                      ELSE chan[l]]
        /\ log' = [log EXCEPT ![dst] = logged(@, st[dst], r)]
        /\ UNCHANGED <<outs, inp, used>>

ByzSend(dst, message) ==
    LET r == handle_message(st[dst], Byzantine, message)
    IN  /\ used < MaxByz
        /\ r.epoch <= MaxEpoch
        /\ Len(r.incoming_queue) <= MaxQueue
        /\ Multicast(dst, r)
        /\ used' = used + 1
        /\ UNCHANGED <<outs, inp>>

\* Every node is given its input before it is passed a message.
NextSys ==
    \/ \E i \in Correct, input \in BOOLEAN : Input(i, input)
    \/ \E l \in Links : inp[l[2]] # None /\ Deliver(l[1], l[2])
    \/ \E dst \in Correct : \E message \in AgreementContent(st[dst].epoch) :
           inp[dst] # None /\ ByzSend(dst, message)

SpecSys == InitSys /\ [][NextSys]_vars

\* The correct nodes are all given the same input, each at any time before
\* or after the messages it is passed.
NextSame ==
    \/ \E i \in Correct, input \in BOOLEAN :
           (\A j \in Correct : inp[j] \subseteq {input}) /\ Input(i, input)
    \/ \E l \in Links : Deliver(l[1], l[2])
    \/ \E dst \in Correct : \E message \in AgreementContent(st[dst].epoch) :
           ByzSend(dst, message)

SpecSame == InitSys /\ [][NextSame]_vars

(***************************************************************************)
(* Properties of the network of instances.                                 *)
(***************************************************************************)
decided(i) == st[i].decision # None
AllInputsAccepted == \A i \in DOMAIN st : inp[i] # None
Quiescent == \A l \in DOMAIN chan : chan[l] = <<>>

DecidedWhenQuiescent ==
    (AllInputsAccepted /\ Quiescent) => \A i \in DOMAIN st : decided(i)

(***************************************************************************)
(* Properties of one instance.  A step of the specification is one call, so *)
(* an action formula relates the state before a call to the state after.   *)
(***************************************************************************)
\* The positions in the log of instance i of the messages of one kind.
sent(i, tag) == {k \in DOMAIN log[i] : log[i][k].tag = tag}

\* C4 (Decision latch): once decision is Some(b) it keeps that value through
\* every later call, later coin invocations with other values included.
DecisionLatch ==
    [][\A i \in DOMAIN st : decided(i) => st'[i].decision = st[i].decision]_vars

\* The instance decided TRUE on the coin of epoch 0 and has since completed
\* epoch 1, whose coin is FALSE.
DecisionLatchWitness ==
    st[0].decision = Some(TRUE) /\ st[0].epoch = 2

\* C5 (One-shot output): a call that sets output sets decision, from unset,
\* to the same value; next_output returns a value at most once in the
\* lifetime of the instance, and that value is the decision.
OutputOnce ==
    [][\A i \in DOMAIN st :
          /\ (st[i].output = None /\ st'[i].output # None) =>
                 (st[i].decision = None /\ st'[i].decision = st'[i].output)
          /\ st'[i].output \subseteq st'[i].decision
          /\ Len(outs'[i]) <= 1
          /\ \A k \in DOMAIN outs'[i] : st'[i].decision = Some(outs'[i][k])]_vars

\* The output was taken once and the instance ran on to termination with
\* nothing more to take.
OutputOnceWitness ==
    /\ st[0].netinfo.num_nodes > 1
    /\ outs[0] = <<TRUE>>
    /\ st[0].output = None
    /\ st[0].terminated

\* C6 (Termination latches): once terminated is true it stays true, every
\* handle_message returns Terminated and every set_input returns
\* InputNotAccepted, and neither changes the state.
TerminationLatch ==
    [][\A i \in DOMAIN st : st[i].terminated =>
          /\ st'[i].terminated
          /\ (\E sender_id \in all_uids(st[i].netinfo), message \in AgreementMessage :
                  HandleMessage(i, sender_id, message))
                 => st'[i] = Err(st[i], "Terminated")
          /\ (\E input \in BOOLEAN : SetInput(i, input))
                 => st'[i] = Err(st[i], "InputNotAccepted")]_vars

\* A terminated instance of a network of several nodes was passed a message.
TerminationLatchWitness ==
    /\ st[0].netinfo.num_nodes > 1
    /\ st[0].terminated
    /\ st[0].ret = "Terminated"

\* C7 (At-most-once BVal): within an epoch the instance enqueues BVal(e, b)
\* at most once for each bit b.
BValOnce ==
    \A i \in DOMAIN st : \A b \in BOOLEAN :
        Cardinality({k \in sent(i, "BVal") : log[i][k].b = b}) <= 1

\* C8 (At-most-once Aux and Conf): within an epoch the instance enqueues at
\* most one Aux and at most one Conf, the Aux before the Conf.  The Aux is
\* there exactly when bin_values is not empty and carries the bit that
\* entered bin_values first: the only bit while bin_values holds one, and,
\* with f = 0 after epoch 0, the instance's own estimate, whose BVal is the
\* first it handles in the epoch.
AuxConfOnce ==
    \A i \in DOMAIN st :
        /\ Cardinality(sent(i, "Aux")) <= 1
        /\ Cardinality(sent(i, "Conf")) <= 1
        /\ (sent(i, "Aux") = {}) <=> (st[i].bin_values = BinValuesNone)
        /\ (sent(i, "Conf") # {}) <=> st[i].conf_round
        /\ \A a \in sent(i, "Aux") :
              /\ bv_contains(st[i].bin_values, log[i][a].b)
              /\ (st[i].netinfo.num_faulty = 0 /\ st[i].epoch > 0)
                     => st[i].estimated = Some(log[i][a].b)
        /\ \A c \in sent(i, "Conf") : \E a \in sent(i, "Aux") : a < c

\* Both bits have reached bin_values and the instance has sent its Aux and
\* its Conf for the epoch.
AuxConfOnceWitness ==
    /\ st[0].netinfo.num_nodes > 1
    /\ st[0].bin_values = BinValuesBoth
    /\ sent(0, "Aux") # {} /\ sent(0, "Conf") # {}

\* C9 (Single-node shortcut): with N = 1, set_input on a fresh instance sets
\* decision and output to the input, terminates, and emits no message.
SingleNode ==
    \A i \in DOMAIN st :
        (st[i].netinfo.num_nodes = 1 /\ inp[i] # None) =>
            /\ st[i].decision = inp[i]
            /\ outs[i] = <<>> => st[i].output = inp[i]
            /\ st[i].terminated
            /\ log[i] = <<>>

Range(q) == {q[k] : k \in DOMAIN q}

\* The senders whose BVal(b) the instance has recorded in its current epoch.
bval_senders(s, b) == {n \in DOMAIN s.received_bval : b \in s.received_bval[n]}

\* C12 (Conf once N - f Aux values lie in bin_values): after any call on an
\* instance that has not terminated, if bin_values is not empty and at least
\* N - f senders have a recorded Aux bit contained in bin_values, the
\* instance has started its Conf round.
ConfWhenAuxQuorum ==
    \A i \in DOMAIN st :
        (/\ ~st[i].terminated
         /\ st[i].bin_values # BinValuesNone
         /\ count_aux(st[i]) >= st[i].netinfo.num_nodes - st[i].netinfo.num_faulty)
            => st[i].conf_round

\* C13 (Amplification at f + 1): a current-epoch BVal(b) that brings the
\* number of senders of BVal(b) to exactly f + 1 while b is not in sent_bval
\* makes the instance enqueue BVal(epoch, b) and record b in sent_bval; while
\* the number stays below f + 1 and b is not in sent_bval, no BVal(epoch, b)
\* is enqueued.  For every f, f = 0 included.
Amplification ==
    [][\A i \in DOMAIN st :
         \A sender_id \in all_uids(st[i].netinfo) \ {st[i].netinfo.our_uid} :
           \A b \in BOOLEAN :
             LET s == st[i]
                 count_bval == Cardinality(bval_senders(s, b) \cup {sender_id})
                 out == Range(enqueued(s, st'[i]))
             IN  (/\ ~s.terminated
                  /\ b \notin s.sent_bval
                  /\ sender_id \notin bval_senders(s, b)
                  /\ HandleMessage(i, sender_id, bval(s.epoch, b)))
                 => /\ count_bval = s.netinfo.num_faulty + 1
                        => /\ bval(s.epoch, b) \in out
                           /\ st'[i].epoch = s.epoch => b \in st'[i].sent_bval
                    /\ count_bval < s.netinfo.num_faulty + 1
                        => bval(s.epoch, b) \notin out]_vars

\* Whether a BVal(b) of sender_id, handled in state s, brings the number of
\* senders of BVal(b) to 2f + 1, by itself or with the relay it triggers.
reaches_bin_values(s, sender_id, b) ==
    LET count_bval == Cardinality(bval_senders(s, b) \cup {sender_id})
        f == s.netinfo.num_faulty
    IN  /\ sender_id \notin bval_senders(s, b)
        /\ \/ count_bval = 2 * f + 1
           \/ /\ count_bval = f + 1 /\ count_bval + 1 = 2 * f + 1
              /\ b \notin s.sent_bval
              /\ s.netinfo.our_uid \notin bval_senders(s, b)

\* The Conf values an instance has recorded, as count_conf sees them once
\* bin_values holds both bits.
all_conf(s) == {n \in DOMAIN s.received_conf : s.received_conf[n] # None}
all_conf_vals(s) == bv_collect({unwrap(s.received_conf[n]) : n \in all_conf(s)})

\* C14 (Growing bin_values re-opens the Conf check): if conf_round is true
\* and a current-epoch BVal makes bin_values grow from one bit to both while
\* N - f recorded Conf values are subsets of the new bin_values, the same
\* call invokes the coin on their union: the instance terminates or moves to
\* the next epoch with the estimate the union and the coin give.  A round
\* whose Conf has been sent is closed only by a call that records a Conf or
\* enlarges bin_values.
ConfReopened ==
    [][\A i \in DOMAIN st :
         LET s == st[i]
             quorum == s.netinfo.num_nodes - s.netinfo.num_faulty
             coin == coin_of(s.epoch)
         IN  (~s.terminated /\ s.conf_round) =>
             /\ \A sender_id \in all_uids(s.netinfo) \ {s.netinfo.our_uid} :
                  \A b \in BOOLEAN :
                    (/\ s.bin_values = {~b}
                     /\ reaches_bin_values(s, sender_id, b)
                     /\ Cardinality(all_conf(s)) >= quorum
                     /\ HandleMessage(i, sender_id, bval(s.epoch, b)))
                    => IF s.decision = Some(coin)
                       THEN st'[i].terminated /\ st'[i].epoch = s.epoch
                       ELSE /\ st'[i].epoch > s.epoch
                            /\ st'[i].epoch = s.epoch + 1 =>
                                 st'[i].estimated =
                                    IF bv_definite(all_conf_vals(s)) # None
                                    THEN bv_definite(all_conf_vals(s))
                                    ELSE Some(coin)
             /\ (st'[i].terminated \/ st'[i].epoch > s.epoch) =>
                  \/ \E sender_id \in all_uids(s.netinfo), v \in BinValuesAll :
                        HandleMessage(i, sender_id, conf(s.epoch, v))
                  \/ \E sender_id \in all_uids(s.netinfo), b \in BOOLEAN :
                        /\ ~bv_contains(s.bin_values, b)
                        /\ HandleMessage(i, sender_id, bval(s.epoch, b))
                  \/ \E b \in BOOLEAN :
                        ~bv_contains(s.bin_values, b) /\ SetInput(i, b)]_vars

\* The instance has sent its Conf with one bit in bin_values, holds N - f
\* Conf values of which too few are subsets of bin_values, and the BVal of
\* the other bit closes the round.
ConfReopenedWitness ==
    LET s == st[0]
    IN  /\ ~s.terminated /\ s.conf_round
        /\ Cardinality(all_conf(s)) >= s.netinfo.num_nodes - s.netinfo.num_faulty
        /\ \E sender_id \in all_uids(s.netinfo) \ {0}, b \in BOOLEAN :
              /\ s.bin_values = {~b}
              /\ reaches_bin_values(s, sender_id, b)
              /\ handle_message(s, sender_id, bval(s.epoch, b)).epoch > s.epoch

\* C15 (Termination rule ordering): with N > 1, terminated becomes true only
\* at a coin equal to the latched decision, in an epoch after the one whose
\* coin latched it (with the alternating coin, at least epoch 2 for TRUE and
\* epoch 3 for FALSE); a terminated instance has a decision; after
\* termination the epoch does not advance and nothing more is enqueued.
TerminationOrder ==
    [][\A i \in DOMAIN st : st[i].netinfo.num_nodes > 1 =>
          /\ (~st[i].terminated /\ st'[i].terminated) =>
                /\ st'[i].decision = Some(coin_of(st'[i].epoch))
                /\ st'[i].epoch >= (IF st'[i].decision = Some(TRUE) THEN 2 ELSE 3)
          /\ st'[i].terminated => st'[i].decision # None
          /\ st[i].terminated =>
                /\ st'[i].epoch = st[i].epoch
                /\ Len(st'[i].messages) <= Len(st[i].messages)]_vars

\* An instance of a network of several nodes decided TRUE and has just
\* terminated, in epoch 2, in a call that returned Ok.
TerminationOrderWitness ==
    /\ st[0].netinfo.num_nodes > 1
    /\ st[0].terminated /\ st[0].ret = "Ok"
    /\ st[0].decision = Some(TRUE) /\ st[0].epoch = 2

(***************************************************************************)
(* One instance of a network of N = 2 nodes (f = 0), called by its         *)
(* environment as in SpecNode, with room for MaxBuffer messages of future  *)
(* epochs in incoming_queue.                                               *)
(***************************************************************************)
InitBuf ==
    /\ st = [i \in {0} |-> new(NetworkInfo(2, 0))]
    /\ chan = <<>>
    /\ log = [i \in {0} |-> <<>>]
    /\ outs = [i \in {0} |-> <<>>]
    /\ inp = [i \in {0} |-> None]
    /\ used = 0

HandleBuffered(i, sender_id, message) ==
    LET r == handle_message(st[i], sender_id, message)
    IN  /\ Len(st[i].messages) <= MaxPending
        /\ r.epoch <= MaxEpoch
        /\ Len(r.incoming_queue) <= MaxBuffer
        /\ st' = [st EXCEPT ![i] = r]
        /\ log' = [log EXCEPT ![i] = logged(@, st[i], r)]
        /\ UNCHANGED <<chan, outs, inp, used>>

\* The messages of a peer that votes b in every step of every epoch.
VotesFor(b) ==
    UNION {{bval(e, b), aux(e, b), conf(e, {b})} : e \in 0..MaxEpoch}

NextBuf ==
    \/ \E input \in BOOLEAN : SetInput(0, input)
    \/ \E sender_id \in all_uids(st[0].netinfo) \ {0}, message \in VotesFor(TRUE) :
           HandleBuffered(0, sender_id, message)
    \/ NextMessage(0)
    \/ NextOutput(0)

SpecBuf == InitBuf /\ [][NextBuf]_vars

\* The pairs of a buffer whose message is of an epoch after e, in order.
later_than(q, e) == SelectSeq(q, LAMBDA p : p[2].epoch > e)

\* Whether q is p with some elements left out.
RECURSIVE is_subsequence(_, _)
is_subsequence(q, p) ==
    IF q = <<>> THEN TRUE
    ELSE IF p = <<>> THEN FALSE
    ELSE IF Head(q) = Head(p) THEN is_subsequence(Tail(q), Tail(p))
    ELSE is_subsequence(q, Tail(p))

\* C20 (Future-epoch buffer invariant): after every call every buffered
\* message is of an epoch after the current one; the buffer is, in arrival
\* order, what was buffered before and the message of the call; while the
\* instance runs, it holds exactly those of them that are of an epoch after
\* the current one, so that no message of an epoch the instance has entered
\* stays in it, nested epoch advances during the replay included.
FutureBuffer ==
    [][\A i \in DOMAIN st :
         LET q == st[i].incoming_queue
             e == st'[i].epoch
         IN  /\ \A k \in DOMAIN st'[i].incoming_queue :
                    st'[i].incoming_queue[k][2].epoch > e
             /\ \A sender_id \in all_uids(st[i].netinfo), message \in AgreementMessage :
                  (~st[i].terminated /\ HandleBuffered(i, sender_id, message)) =>
                     /\ is_subsequence(st'[i].incoming_queue,
                                       Append(q, <<sender_id, message>>))
                     /\ ~st'[i].terminated =>
                          st'[i].incoming_queue =
                             later_than(Append(q, <<sender_id, message>>), e)
             /\ \A input \in BOOLEAN :
                  SetInput(i, input) =>
                     /\ is_subsequence(st'[i].incoming_queue, q)
                     /\ ~st'[i].terminated =>
                          st'[i].incoming_queue = later_than(q, e)]_vars

\* The buffer holds three messages and a message of the current epoch
\* closes the round: the call replays one of them and the instance, still
\* running, keeps the other two, distinct and of one later epoch, in order.
FutureBufferWitness ==
    /\ ~st[0].terminated
    /\ Len(st[0].incoming_queue) = 3
    /\ \E message \in AgreementContent(st[0].epoch) :
          LET r == handle_message(st[0], 1, message)
          IN  /\ ~r.terminated /\ r.epoch = st[0].epoch + 1
              /\ Len(r.incoming_queue) = 2
              /\ r.incoming_queue[1] # r.incoming_queue[2]
              /\ r.incoming_queue = SubSeq(st[0].incoming_queue, 2, 3)

\* C18 (Terminated error only when already terminated): a handle_message
\* call made while terminated is false returns success, also when the
\* instance terminates during the replay of its buffer.
TerminatedOnlyWhenTerminated ==
    [][\A i \in DOMAIN st :
         \A sender_id \in all_uids(st[i].netinfo), message \in AgreementMessage :
            (~st[i].terminated /\ HandleBuffered(i, sender_id, message))
               => st'[i].ret # "Terminated"]_vars

\* The peers whose messages an instance handles.
peers(s) == all_uids(s.netinfo) \ {s.netinfo.our_uid}

\* C11 (Future-buffer replay equivalence): for an instance running in epoch
\* k, a message M of epoch k + 1 and a call that takes the instance out of
\* epoch k, handling M first (it is buffered and replayed by that call)
\* leaves the same state, outbound queue and result as making the call
\* first and handling M afterwards.
ReplayEquivalence ==
    \A i \in DOMAIN st :
       LET s == st[i]
       IN  ~s.terminated =>
           /\ \A sender_id \in peers(s), c \in AgreementContent(s.epoch) :
                LET first == handle_message(s, sender_id, c)
                IN  first.epoch > s.epoch =>
                    \A from \in peers(s), M \in AgreementContent(s.epoch + 1) :
                       handle_message(handle_message(s, from, M), sender_id, c)
                          = handle_message(first, from, M)
           /\ \A input \in BOOLEAN :
                LET first == set_input(s, input)
                IN  first.epoch > s.epoch =>
                    \A from \in peers(s), M \in AgreementContent(s.epoch + 1) :
                       set_input(handle_message(s, from, M), input)
                          = handle_message(first, from, M)

\* The instance holds a buffered message, a message of its epoch closes
\* the round without terminating it, and a message M of the next epoch,
\* buffered before that call, is replayed by it and makes it enqueue more
\* than it enqueues without M.
ReplayEquivalenceWitness ==
    LET s == st[0]
    IN  /\ ~s.terminated /\ s.incoming_queue # <<>>
        /\ \E sender_id \in peers(s), c \in AgreementContent(s.epoch),
              M \in AgreementContent(s.epoch + 1) :
              LET first == handle_message(s, sender_id, c)
                  both == handle_message(handle_message(s, sender_id, M),
                                         sender_id, c)
              IN  /\ first.epoch = s.epoch + 1 /\ ~first.terminated
                  /\ both.incoming_queue = <<>>
                  /\ Len(both.messages) > Len(first.messages)

(***************************************************************************)
(* The network of SpecSys with the inputs TRUE, TRUE, FALSE and a          *)
(* Byzantine node that supports, with up to MaxSplit messages of epoch 0,  *)
(* the bit of the minority in the BVal step and the bit of the majority in *)
(* the Conf step.                                                          *)
(***************************************************************************)
SplitInput == [i \in Correct |-> i # 2]
SplitContent == {bval(0, FALSE), conf(0, {TRUE})}

ByzSplit(dst, message) ==
    LET r == handle_message(st[dst], Byzantine, message)
    IN  /\ used < MaxSplit
        /\ r.epoch <= MaxEpoch
        /\ Len(r.incoming_queue) <= MaxQueue
        /\ Multicast(dst, r)
        /\ used' = used + 1
        /\ UNCHANGED <<outs, inp>>

NextSplit ==
    \/ \E i \in Correct : Input(i, SplitInput[i])
    \/ \E l \in Links : inp[l[2]] # None /\ Deliver(l[1], l[2])
    \/ \E dst \in Correct : \E message \in SplitContent :
           inp[dst] # None /\ ByzSplit(dst, message)

SpecSplit == InitSys /\ [][NextSplit]_vars

\* C16 (Terminated means everyone agreed): whenever a correct node is
\* terminated, every other correct node has already latched a decision,
\* equal to the decision of the terminated node.
TerminatedAllAgreed ==
    \A i, j \in DOMAIN st :
        st[i].terminated =>
            (st[j].decision # None /\ st[j].decision = st[i].decision)

\* C19 (Eventual termination of every correct node): with every input given
\* and every message between correct nodes delivered, every correct node
\* terminates.  Once all inputs are accepted and no message is left to
\* deliver, no correct node takes a further step unless the Byzantine node
\* acts, so by then every correct node must have terminated.
TerminatedWhenQuiescent ==
    (AllInputsAccepted /\ Quiescent) => \A i \in DOMAIN st : st[i].terminated

(***************************************************************************)
(* The network of SpecSys with the same input at every correct node, run   *)
(* through four epochs: far enough for a decision FALSE, latched by the    *)
(* coin of epoch 1, to meet the coin of epoch 3.                           *)
(***************************************************************************)
DeliverRun(src, dst) ==
    LET r == handle_message(st[dst], src, Head(chan[<<src, dst>>]))
    IN  /\ chan[<<src, dst>>] # <<>>
        /\ r.epoch <= MaxRunEpoch
        /\ Len(r.incoming_queue) <= MaxQueue
        /\ st' = [st EXCEPT ![dst] = [r EXCEPT !.messages = <<>>]]
        /\ chan' = [l \in Links |->
                      IF l = <<src, dst>> THEN Tail(chan[l])
                      ELSE IF l[1] = dst THEN chan[l] \o r.messages
                      ELSE chan[l]]
        /\ log' = [log EXCEPT ![dst] = logged(@, st[dst], r)]
        /\ UNCHANGED <<outs, inp, used>>

ByzRun(dst, message) ==
    LET r == handle_message(st[dst], Byzantine, message)
    IN  /\ used < MaxByz
        /\ r.epoch <= MaxRunEpoch
        /\ Len(r.incoming_queue) <= MaxQueue
        /\ Multicast(dst, r)
        /\ used' = used + 1
        /\ UNCHANGED <<outs, inp>>

NextRun ==
    \/ \E i \in Correct, input \in BOOLEAN :
           (\A j \in Correct : inp[j] \subseteq {input}) /\ Input(i, input)
    \/ \E l \in Links : inp[l[2]] # None /\ DeliverRun(l[1], l[2])
    \/ \E dst \in Correct : \E message \in AgreementContent(st[dst].epoch) :
           inp[dst] # None /\ ByzRun(dst, message)

SpecRun == InitSys /\ [][NextRun]_vars

\* The epoch whose coin latches the decision b of a unanimous run.
latch_epoch(b) == IF b THEN 0 ELSE 1

\* C17 (Unanimous-input run): with N = 4, f = 1 and the same input b at
\* every correct node, a correct node has latched and output b exactly when
\* it has passed the coin of epoch 0 (b = TRUE) or of epoch 1 (b = FALSE); it
\* runs on through the next epoch and terminates at the coin two epochs
\* after the latching one, never earlier or later; and once every input is
\* accepted and every message between correct nodes delivered, every
\* correct node has terminated.
UnanimousRun ==
    \A b \in BOOLEAN :
        (\A j \in DOMAIN st : inp[j] \subseteq {b}) =>
            /\ \A i \in DOMAIN st :
                 /\ st[i].decision =
                       IF st[i].epoch > latch_epoch(b) THEN Some(b) ELSE None
                 /\ st[i].output = st[i].decision
                 /\ st[i].epoch <= latch_epoch(b) + 2
                 /\ st[i].terminated => st[i].epoch = latch_epoch(b) + 2
            /\ (AllInputsAccepted /\ Quiescent) =>
                 \A i \in DOMAIN st : st[i].terminated

\* Every correct node had input FALSE, the Byzantine node has sent its
\* message, every message is delivered and every correct node has
\* terminated in epoch 3 with decision FALSE.
UnanimousRunWitness ==
    /\ used = MaxByz /\ Quiescent
    /\ \A i \in DOMAIN st :
          /\ inp[i] = Some(FALSE)
          /\ st[i].terminated /\ st[i].epoch = 3
          /\ st[i].decision = Some(FALSE)

====
